---- MODULE Spec2Model ----
(***************************************************************************)
(* A model of otah (src/otah.py): Manifest.__init__, Manifest.create,      *)
(* Manifest.__exit__ and the command-line driver _main.                    *)
(*                                                                         *)
(* Strings are sequences of text elements.  Archive entry names are        *)
(* written one character per element, because RE_PLIST_PATH inspects them  *)
(* character by character.  Other text (hosts, plist keys and values) is   *)
(* a sequence whose elements are either one of the characters the          *)
(* property-list writer treats specially (CR, LF, AMP, LT, GT, CTRL) or a  *)
(* run of ordinary characters.                                             *)
(***************************************************************************)
EXTENDS Naturals, Sequences, FiniteSets

VARIABLES
    zip,       \* the .ipa file on disk: its ordered entries (name, data)
    zfile,     \* Manifest.zfile, the ZipFile handle: "unopened", "open", "closed"
    opened,    \* the member names handed to zfile.open(), in order
    appname,   \* Manifest.appname
    info,      \* Manifest.info, the decoded Info.plist
    err,       \* the exception that ended the last operation (kind "None": none)
    pc,        \* position of the caller
    host,      \* the host argument of the latest create call
    ret,       \* what the latest create call returned
    sink,      \* the filehandle supplied to the latest create call
    memo,      \* a remembered earlier create call: its host and its outcome
    args,      \* _main: the parsed command line
    fs,        \* _main: the output files on disk
    httpd      \* _main: the demo TCPServer

vars == <<zip, zfile, opened, appname, info, err, pc, host, ret, sink, memo,
          args, fs, httpd>>

-----------------------------------------------------------------------------
(* Bounds of the model.                                                    *)

\* The longest archive (number of entries) constructed from.
MaxEntries == 2

\* The longest host string (number of text elements) passed to create.
MaxHostLen == 1

-----------------------------------------------------------------------------
(* Text.                                                                   *)

CR == "\r"
LF == "\n"
AMP == "&"
LT == "<"
GT == ">"
\* one of the characters of plistlib's _controlCharPat (\x00-\x08, \x0b, ...)
CTRL == "\\x01"

\* re: \w for the characters that occur in the entry names below
WordChars ==
    {"P", "a", "y", "l", "o", "d", "A", "B", "X", "p", "I", "n", "f",
     "i", "s", "t", "_", "0"}

IsWord(c) == c \in WordChars

\* re: . matches any character except a newline
IsAnyChar(c) == c # LF

IsPrefix(p, s) == Len(p) <= Len(s) /\ SubSeq(s, 1, Len(p)) = p

IsSuffix(p, s) ==
    Len(p) <= Len(s) /\ SubSeq(s, Len(s) - Len(p) + 1, Len(s)) = p

SetMax(S) == CHOOSE m \in S : \A n \in S : n <= m

SetMin(S) == CHOOSE m \in S : \A n \in S : m <= n

PayloadSlash == <<"P", "a", "y", "l", "o", "a", "d", "/">>

DotApp == <<".", "a", "p", "p">>

SlashInfoPlist == <<"/", "I", "n", "f", "o", ".", "p", "l", "i", "s", "t">>

-----------------------------------------------------------------------------
\* RE_PLIST_PATH (Payload/, a group of one or more \w, any character, "app",
\* an optional slash, a group of any characters), used with .match(): anchored
\* at the start of the name and not at its end.  The \w+ group is greedy and
\* backtracks, the dot before app is unescaped (any character but a newline),
\* and the tail of the pattern matches whatever follows, also nothing.

\* the lengths k of group 1 for which the rest of the pattern matches
Group1Lens(path) ==
    {k \in 1..Len(path) :
        /\ Len(PayloadSlash) + k + 4 <= Len(path)
        /\ \A i \in 1..k : IsWord(path[Len(PayloadSlash) + i])
        /\ IsAnyChar(path[Len(PayloadSlash) + k + 1])
        /\ SubSeq(path, Len(PayloadSlash) + k + 2, Len(PayloadSlash) + k + 4)
              = <<"a", "p", "p">>}

\* whether RE_PLIST_PATH.match(path) is not None
RE_PLIST_PATH_matches(path) ==
    IsPrefix(PayloadSlash, path) /\ Group1Lens(path) # {}

\* match.group(1): the greedy \w+ keeps the longest run that lets the rest match
RE_PLIST_PATH_group1(path) ==
    SubSeq(path, Len(PayloadSlash) + 1,
           Len(PayloadSlash) + SetMax(Group1Lens(path)))

\* zfile.namelist()
namelist(z) == [i \in 1..Len(z) |-> z[i].name]

\* _parse_app_name: group 1 of the first name that matches, "" when none does
_parse_app_name(z) ==
    LET hits == {i \in 1..Len(z) : RE_PLIST_PATH_matches(namelist(z)[i])}
    IN  IF hits = {} THEN <<>>
        ELSE RE_PLIST_PATH_group1(namelist(z)[SetMin(hits)])

-----------------------------------------------------------------------------
(* Archive contents.                                                       *)

RequiredKeys == {"CFBundleIdentifier", "CFBundleShortVersionString"}

EmptyDict == [k \in {} |-> <<>>]

\* the values an Info.plist of the model gives a key
PlistValues == {<<"com.v">>, <<"1.0">>, <<CR>>, <<CTRL>>}

\* the decoded mappings: any subset of the two keys create reads
PlistDicts ==
    UNION {[K -> PlistValues] : K \in SUBSET RequiredKeys}

\* a well-formed property list holding d
PlistFile(d) == [kind |-> "plist", dict |-> d]

\* a file no plist format's detector accepts
NotPlistFile == [kind |-> "notplist", dict |-> EmptyDict]

\* a file that starts as an XML plist and is malformed XML
BadXmlFile == [kind |-> "badxml", dict |-> EmptyDict]

\* any other member of the archive (a directory entry, the executable)
OtherFile == [kind |-> "other", dict |-> EmptyDict]

GoodDict ==
    [k \in RequiredKeys |->
        IF k = "CFBundleIdentifier" THEN <<"com.v">> ELSE <<"1.0">>]

NameA == PayloadSlash \o <<"A">> \o DotApp

\* the entry names the archives of the model are built from
InfoPlistNames ==
    { NameA \o SlashInfoPlist,                                 \* Payload/A.app/Info.plist
      PayloadSlash \o <<"B">> \o DotApp \o SlashInfoPlist,     \* Payload/B.app/Info.plist
      PayloadSlash \o <<"A", "-", "B">> \o DotApp \o SlashInfoPlist }
                                                               \* Payload/A-B.app/Info.plist

OtherNames ==
    { PayloadSlash,                                            \* Payload/
      NameA \o <<"/">>,                                        \* Payload/A.app/
      PayloadSlash \o <<"A", "X", "a", "p", "p">>,             \* Payload/AXapp
      PayloadSlash \o <<"B">> \o DotApp \o <<"s", "/", "A">>,  \* Payload/B.apps/A
      <<"I", "n", "f", "o", ".", "p", "l", "i", "s", "t">> }   \* Info.plist

Entries ==
    {[name |-> n, data |-> d] :
        n \in InfoPlistNames, d \in {PlistFile(GoodDict), NotPlistFile, BadXmlFile}}
    \cup {[name |-> n, data |-> OtherFile] : n \in OtherNames}

\* every archive of at most MaxEntries entries
Archives == UNION {[1..n -> Entries] : n \in 0..MaxEntries}

\* the archives create is exercised on: one application, every decoded mapping
Bundles ==
    {<<[name |-> NameA \o SlashInfoPlist, data |-> PlistFile(d)]>> : d \in PlistDicts}
    \cup {<<[name |-> NameA \o <<"/">>, data |-> OtherFile]>>, <<>>}

-----------------------------------------------------------------------------
(* Errors.                                                                 *)

NoError == [kind |-> "None", key |-> <<>>]

Raised(kind, key) == [kind |-> kind, key |-> key]

-----------------------------------------------------------------------------
(* Manifest.__init__                                                       *)

\* the member zfile.open(name) reads: ZipFile.getinfo keeps the last entry
\* stored under a name; 0 when there is none (KeyError)
MemberIndex(z, name) ==
    LET at == {i \in 1..Len(z) : z[i].name = name}
    IN  IF at = {} THEN 0 ELSE SetMax(at)

\* plistlib.load on a member's bytes
plistlib_load(data) ==
    CASE data.kind = "plist"  -> [err |-> NoError, dict |-> data.dict]
      [] data.kind = "badxml" -> [err |-> Raised("ExpatError", <<>>), dict |-> EmptyDict]
      [] OTHER -> [err |-> Raised("InvalidFileException", <<>>), dict |-> EmptyDict]

\* f"Payload/{self.appname}.app/Info.plist"
InfoPlistPath(name) == PayloadSlash \o name \o DotApp \o SlashInfoPlist

\* Manifest__init__ with a parse failure swallowed: info is left empty
Manifest__init__IgnoreParseError(z) ==
    LET name == _parse_app_name(z)
        path == InfoPlistPath(name)
        at   == MemberIndex(z, path)
        load == plistlib_load(z[at].data)
    IN  IF name # <<>>
        THEN IF at = 0
             THEN [zfile |-> "open", appname |-> name, opened |-> <<path>>,
                   info |-> EmptyDict, err |-> Raised("KeyError", path)]
             ELSE [zfile |-> "open", appname |-> name, opened |-> <<path>>,
                   info |-> load.dict, err |-> NoError]
        ELSE [zfile |-> "open", appname |-> name, opened |-> <<>>,
              info |-> EmptyDict, err |-> Raised("RuntimeError", <<>>)]

\* the state __init__ leaves: the handle is opened first and nothing closes it
Manifest__init__(z) ==
    LET name == _parse_app_name(z)
        path == InfoPlistPath(name)
        at   == MemberIndex(z, path)
        load == plistlib_load(z[at].data)
    IN  IF name # <<>>
        THEN IF at = 0
             THEN [zfile |-> "open", appname |-> name, opened |-> <<path>>,
                   info |-> EmptyDict, err |-> Raised("KeyError", path)]
             ELSE [zfile |-> "open", appname |-> name, opened |-> <<path>>,
                   info |-> load.dict, err |-> load.err]
        ELSE [zfile |-> "open", appname |-> name, opened |-> <<>>,
              info |-> EmptyDict, err |-> Raised("RuntimeError", <<>>)]

-----------------------------------------------------------------------------
(* Property-list values and plistlib's XML writer and parser.              *)

Str(text) == [t |-> "string", s |-> text, keys |-> <<>>, items |-> <<>>]

Dict(ks, vs) == [t |-> "dict", s |-> <<>>, keys |-> ks, items |-> vs]

Array(vs) == [t |-> "array", s |-> <<>>, keys |-> <<>>, items |-> vs]

\* d[key] of a decoded dict
Get(d, key) == d.items[CHOOSE i \in 1..Len(d.keys) : d.keys[i] = key]

\* _controlCharPat.search(text) is not None
HasControl(text) == \E i \in 1..Len(text) : text[i] = CTRL

\* plistlib._escape once the control characters are excluded: DOS and Mac
\* line endings become \n, then the three markup characters are escaped
RECURSIVE _escape(_)
_escape(text) ==
    IF text = <<>> THEN <<>>
    ELSE IF Head(text) = CR /\ Len(text) >= 2 /\ text[2] = LF
         THEN <<LF>> \o _escape(Tail(Tail(text)))
    ELSE IF Head(text) = CR  THEN <<LF>> \o _escape(Tail(text))
    ELSE IF Head(text) = AMP THEN <<"&", "amp;">> \o _escape(Tail(text))
    ELSE IF Head(text) = LT  THEN <<"&", "lt;">> \o _escape(Tail(text))
    ELSE IF Head(text) = GT  THEN <<"&", "gt;">> \o _escape(Tail(text))
    ELSE <<Head(text)>> \o _escape(Tail(text))

\* whether writing v raises ValueError: some key or string holds a control character
RECURSIVE RaisesValueError(_)
RaisesValueError(v) ==
    \/ v.t = "string" /\ HasControl(v.s)
    \/ \E i \in 1..Len(v.keys) : HasControl(v.keys[i])
    \/ \E i \in 1..Len(v.items) : RaisesValueError(v.items[i])

\* _PlistWriter.write_value, keys in the mapping's own order (sort_keys=False);
\* the indentation the writer adds between elements is left out
RECURSIVE write_value(_), write_items(_, _)
write_value(v) ==
    CASE v.t = "string" -> <<"<string>">> \o _escape(v.s) \o <<"</string>">>
      [] v.t = "dict"   -> <<"<dict>">> \o write_items(v, 1) \o <<"</dict>">>
      [] v.t = "array"  -> <<"<array>">> \o write_items(v, 1) \o <<"</array>">>

write_items(v, i) ==
    IF i > Len(v.items) THEN <<>>
    ELSE (IF v.t = "dict"
          THEN <<"<key>">> \o _escape(v.keys[i]) \o <<"</key>">>
          ELSE <<>>)
         \o write_value(v.items[i]) \o write_items(v, i + 1)

XmlDecl == "<?xml version=\"1.0\" encoding=\"UTF-8\"?>"

DocType == "<!DOCTYPE plist>"

PLISTHEADER == <<XmlDecl, DocType, "<plist version=\"1.0\">">>

\* plistlib.dumps(value, sort_keys=False): fmt defaults to FMT_XML
plistlib_dumps(value) == PLISTHEADER \o write_value(value) \o <<"</plist>">>

\* the parser's character data: entities decoded, line endings normalised;
\* an ampersand that starts no entity is not well-formed
RECURSIVE Unescape(_)
Unescape(data) ==
    IF data = <<>> THEN <<>>
    ELSE IF Head(data) = "&"
         THEN IF Len(data) >= 2 /\ data[2] \in {"amp;", "lt;", "gt;"}
              THEN <<CASE data[2] = "amp;" -> AMP
                       [] data[2] = "lt;"  -> LT
                       [] data[2] = "gt;"  -> GT>> \o Unescape(Tail(Tail(data)))
              ELSE <<"NOT WELL-FORMED">>
    ELSE IF Head(data) = CR /\ Len(data) >= 2 /\ data[2] = LF
         THEN <<LF>> \o Unescape(Tail(Tail(data)))
    ELSE IF Head(data) = CR THEN <<LF>> \o Unescape(Tail(data))
    ELSE <<Head(data)>> \o Unescape(Tail(data))

\* the position of the first tag `close` at or after i
TagAt(toks, i, close) == SetMin({j \in i..Len(toks) : toks[j] = close})

\* _PlistParser: the value that starts at toks[i], and where the next one starts
RECURSIVE ParseValue(_, _), ParseDict(_, _, _, _), ParseArray(_, _, _)
ParseValue(toks, i) ==
    CASE toks[i] = "<string>" ->
            LET e == TagAt(toks, i + 1, "</string>")
            IN  [v |-> Str(Unescape(SubSeq(toks, i + 1, e - 1))), next |-> e + 1]
      [] toks[i] = "<dict>"  -> ParseDict(toks, i + 1, <<>>, <<>>)
      [] toks[i] = "<array>" -> ParseArray(toks, i + 1, <<>>)

ParseDict(toks, i, ks, vs) ==
    IF toks[i] = "</dict>" THEN [v |-> Dict(ks, vs), next |-> i + 1]
    ELSE LET e == TagAt(toks, i + 1, "</key>")
             k == Unescape(SubSeq(toks, i + 1, e - 1))
             r == ParseValue(toks, e + 1)
         IN  ParseDict(toks, r.next, Append(ks, k), Append(vs, r.v))

ParseArray(toks, i, vs) ==
    IF toks[i] = "</array>" THEN [v |-> Array(vs), next |-> i + 1]
    ELSE LET r == ParseValue(toks, i)
         IN  ParseArray(toks, r.next, Append(vs, r.v))

\* plistlib.loads of an XML property list
plistlib_loads(bytes) == ParseValue(bytes, Len(PLISTHEADER) + 1).v

-----------------------------------------------------------------------------
(* Manifest.create                                                         *)

\* ManifestDoc with bundle-version taken from the identifier
ManifestDocVersionFromIdentifier(name, inf, h) ==
    Dict(<< <<"items">> >>,
         << Array(<< Dict(<< <<"assets">>, <<"metadata">> >>,
                          << Array(<< Dict(<< <<"kind">>, <<"url">> >>,
                                           << Str(<<"software-package">>), Str(h) >>) >>),
                             Dict(<< <<"bundle-identifier">>, <<"bundle-version">>,
                                     <<"kind">>, <<"title">> >>,
                                  << Str(inf["CFBundleIdentifier"]),
                                     Str(inf["CFBundleIdentifier"]),
                                     Str(<<"software">>),
                                     Str(name) >>) >>) >>) >>)

\* ManifestDoc with the asset's url written before its kind
ManifestDocUrlFirst(name, inf, h) ==
    Dict(<< <<"items">> >>,
         << Array(<< Dict(<< <<"assets">>, <<"metadata">> >>,
                          << Array(<< Dict(<< <<"url">>, <<"kind">> >>,
                                           << Str(h), Str(<<"software-package">>) >>) >>),
                             Dict(<< <<"bundle-identifier">>, <<"bundle-version">>,
                                     <<"kind">>, <<"title">> >>,
                                  << Str(inf["CFBundleIdentifier"]),
                                     Str(inf["CFBundleShortVersionString"]),
                                     Str(<<"software">>),
                                     Str(name) >>) >>) >>) >>)

\* the mapping create hands to plistlib.dumps, keys in the order of the literal
ManifestDoc(name, inf, h) ==
    Dict(<< <<"items">> >>,
         << Array(<< Dict(<< <<"assets">>, <<"metadata">> >>,
                          << Array(<< Dict(<< <<"kind">>, <<"url">> >>,
                                           << Str(<<"software-package">>), Str(h) >>) >>),
                             Dict(<< <<"bundle-identifier">>, <<"bundle-version">>,
                                     <<"kind">>, <<"title">> >>,
                                  << Str(inf["CFBundleIdentifier"]),
                                     Str(inf["CFBundleShortVersionString"]),
                                     Str(<<"software">>),
                                     Str(name) >>) >>) >>) >>)

\* the first lookup of the literal that fails, in evaluation order
MissingKey(inf) ==
    IF "CFBundleIdentifier" \notin DOMAIN inf THEN "CFBundleIdentifier"
    ELSE IF "CFBundleShortVersionString" \notin DOMAIN inf
         THEN "CFBundleShortVersionString"
    ELSE ""

\* create streaming the document to the filehandle: the header is written
\* before the fields are looked up
createWriteFirst(name, inf, h, fh) ==
    IF MissingKey(inf) # ""
    THEN [err |-> Raised("KeyError", <<MissingKey(inf)>>),
          data |-> <<>>, written |-> IF fh THEN PLISTHEADER ELSE <<>>]
    ELSE IF RaisesValueError(ManifestDoc(name, inf, h))
    THEN [err |-> Raised("ValueError", <<>>), data |-> <<>>, written |-> <<>>]
    ELSE LET plist_data == plistlib_dumps(ManifestDoc(name, inf, h))
         IN  [err |-> NoError, data |-> plist_data,
              written |-> IF fh THEN plist_data ELSE <<>>]

\* create(host, filehandle=fh): the error raised, the bytes returned and the
\* bytes written to the filehandle (fh: whether one was supplied)
create(name, inf, h, fh) ==
    IF MissingKey(inf) # ""
    THEN [err |-> Raised("KeyError", <<MissingKey(inf)>>),
          data |-> <<>>, written |-> <<>>]
    ELSE IF RaisesValueError(ManifestDoc(name, inf, h))
    THEN [err |-> Raised("ValueError", <<>>), data |-> <<>>, written |-> <<>>]
    ELSE LET plist_data == plistlib_dumps(ManifestDoc(name, inf, h))
         IN  [err |-> NoError, data |-> plist_data,
              written |-> IF fh THEN plist_data ELSE <<>>]

-----------------------------------------------------------------------------
(* The library's operations as a caller drives them.                       *)

\* the text elements hosts are made of: ordinary text, a character the writer
\* escapes, one it rewrites and one it refuses
HostChars == {"h", AMP, CR, CTRL}

RECURSIVE TextsUpTo(_)
TextsUpTo(n) ==
    IF n = 0 THEN {<<>>}
    ELSE TextsUpTo(n - 1)
         \cup {Append(t, c) : t \in TextsUpTo(n - 1), c \in HostChars}

\* the host strings passed to create
Hosts == TextsUpTo(MaxHostLen)

NoCall == [state |-> "none", data |-> <<>>]

NoSink == [supplied |-> FALSE, data |-> <<>>]

NoMemo == [set |-> FALSE, host |-> <<>>, fh |-> FALSE, ret |-> NoCall, err |-> NoError]

NoArgs == [demo |-> FALSE, host |-> <<>>, hasHost |-> FALSE, output |-> FALSE]

NoFiles == [output |-> "absent", manifest |-> "absent"]

Live == {"constructed", "inwith", "exited"}

\* a caller about to construct a Manifest for the archive z
InitLib(Z) ==
    /\ zip \in Z
    /\ zfile = "unopened"
    /\ opened = <<>>
    /\ appname = <<>>
    /\ info = EmptyDict
    /\ err = NoError
    /\ pc = "new"
    /\ host = <<>>
    /\ ret = NoCall
    /\ sink = NoSink
    /\ memo = NoMemo
    /\ args = NoArgs
    /\ fs = NoFiles
    /\ httpd = "none"

\* manifest = Manifest(path), for the archive at path
Construct ==
    /\ pc = "new"
    /\ \E m \in {Manifest__init__(zip)} :
           /\ zfile' = m.zfile
           /\ opened' = m.opened
           /\ appname' = m.appname
           /\ info' = m.info
           /\ err' = m.err
           /\ pc' = IF m.err = NoError THEN "constructed" ELSE "raised"
    /\ UNCHANGED <<zip, host, ret, sink, memo, args, fs, httpd>>

\* with manifest: __enter__ returns self
Enter ==
    /\ pc = "constructed"
    /\ pc' = "inwith"
    /\ UNCHANGED <<zip, zfile, opened, appname, info, err, host, ret, sink,
                   memo, args, fs, httpd>>

\* __exit__: self.zfile.close()
Exit ==
    /\ pc = "inwith"
    /\ zfile' = "closed"
    /\ pc' = "exited"
    /\ UNCHANGED <<zip, opened, appname, info, err, host, ret, sink, memo,
                   args, fs, httpd>>

\* what a create call that ended as r returned
Outcome(r) ==
    [state |-> IF r.err = NoError THEN "bytes" ELSE "raised", data |-> r.data]

\* create reading Info.plist from the archive at each call instead of using
\* the mapping decoded at construction: a closed archive cannot be read
CreateCallLazy(h, fh) ==
    /\ pc \in Live
    /\ \E r \in {IF zfile = "closed"
                 THEN [err |-> Raised("ValueError", <<>>), data |-> <<>>,
                       written |-> <<>>]
                 ELSE create(appname, info, h, fh)} :
           /\ host' = h
           /\ err' = r.err
           /\ ret' = Outcome(r)
           /\ sink' = [supplied |-> fh, data |-> r.written]
    /\ UNCHANGED <<zip, zfile, opened, appname, info, pc, args, fs, httpd>>

\* manifest.create(h, filehandle=...), with a freshly opened filehandle when
\* fh: self is read and never assigned
CreateCall(h, fh) ==
    /\ pc \in Live
    /\ \E r \in {create(appname, info, h, fh)} :
           /\ host' = h
           /\ err' = r.err
           /\ ret' = Outcome(r)
           /\ sink' = [supplied |-> fh, data |-> r.written]
    /\ UNCHANGED <<zip, zfile, opened, appname, info, pc, args, fs, httpd>>

Create(h, fh) == CreateCall(h, fh) /\ UNCHANGED memo

\* a create call whose host and outcome the caller may keep, to compare the
\* outcome of a later call with
CreateRemember(h, fh) ==
    /\ CreateCall(h, fh)
    /\ memo' \in {memo, [set |-> TRUE, host |-> host', fh |-> fh, ret |-> ret',
                         err |-> err']}

InitOpen == InitLib(Archives)

NextOpen == Construct

SpecOpen == InitOpen /\ [][NextOpen]_vars

Init == InitLib(Bundles)

Next ==
    \/ Construct
    \/ Enter
    \/ Exit
    \/ \E h \in Hosts, fh \in BOOLEAN : Create(h, fh)

Spec == Init /\ [][Next]_vars

\* the archives repeated calls are compared on: a complete Info.plist, one
\* without CFBundleShortVersionString, one whose identifier create cannot write
RepeatBundles ==
    {<<[name |-> NameA \o SlashInfoPlist, data |-> PlistFile(d)]>> :
        d \in {GoodDict,
               [k \in {"CFBundleIdentifier"} |-> <<"com.v">>],
               [GoodDict EXCEPT !["CFBundleIdentifier"] = <<CTRL>>]}}

InitRepeat == InitLib(RepeatBundles)

NextRepeat ==
    \/ Construct
    \/ Enter
    \/ Exit
    \/ \E h \in Hosts, fh \in BOOLEAN : CreateRemember(h, fh)

SpecRepeat == InitRepeat /\ [][NextRepeat]_vars

-----------------------------------------------------------------------------
(* _main: the command-line driver, one action per statement; a             *)
(* KeyboardInterrupt may arrive at any statement.                          *)

\* the archives _main is run on
MainArchives ==
    {<<[name |-> NameA \o SlashInfoPlist, data |-> PlistFile(d)]>> :
        d \in {GoodDict, [k \in {"CFBundleShortVersionString"} |-> <<"1.0">>]}}
    \cup {<<[name |-> NameA \o <<"/">>, data |-> OtherFile]>>,
          <<[name |-> PayloadSlash, data |-> OtherFile]>>}

\* the parsed command lines: --demo, --host, --output given or not
MainArgs ==
    {[demo |-> d, host |-> IF h THEN <<"h">> ELSE <<>>, hasHost |-> h, output |-> o] :
        d \in BOOLEAN, h \in BOOLEAN, o \in BOOLEAN}

\* a file of the run: not there, or there with earlier content
FileStates == {"absent", "old"}

InMain == {"with", "open_output", "create", "print", "get_ip", "open_manifest",
           "demo_create", "bind", "demo_print", "serve_forever", "no_host"}

Terminal == {"exit0", "exit1"}

InitMain ==
    /\ zip \in MainArchives
    /\ zfile = "unopened"
    /\ opened = <<>>
    /\ appname = <<>>
    /\ info = EmptyDict
    /\ err = NoError
    /\ pc = "main"
    /\ host = <<>>
    /\ ret = NoCall
    /\ sink = NoSink
    /\ memo = NoMemo
    /\ args \in MainArgs
    /\ fs \in [output : FileStates, manifest : FileStates]
    /\ httpd = "none"

\* with Manifest(args.ipa_file) as manifest: a constructor that raises ends the
\* run before the with statement has a manager whose __exit__ it could call
MainConstruct ==
    /\ pc = "main"
    /\ \E m \in {Manifest__init__(zip)} :
           /\ zfile' = m.zfile
           /\ opened' = m.opened
           /\ appname' = m.appname
           /\ info' = m.info
           /\ err' = m.err
           /\ pc' = IF m.err = NoError THEN "with" ELSE "exit1"
    /\ UNCHANGED <<zip, host, ret, sink, memo, args, fs, httpd>>

\* the if / elif / else of the with block
MainBranch ==
    /\ pc = "with"
    /\ pc' = IF ~args.demo /\ args.hasHost THEN "open_output"
             ELSE IF args.demo THEN "get_ip"
             ELSE "no_host"
    /\ UNCHANGED <<zip, zfile, opened, appname, info, err, host, ret, sink,
                   memo, args, fs, httpd>>

\* an exception leaves the with block: __exit__ closes the archive, and the
\* with TCPServer block, when entered, closes the server
Propagate(e) ==
    /\ err' = e
    /\ zfile' = "closed"
    /\ httpd' = IF httpd = "bound" THEN "closed" ELSE httpd
    /\ pc' = "exit1"

\* production: the filehandle argument is evaluated before create is called;
\* open(args.output, "wb") creates the file or truncates it
OpenOutput ==
    /\ pc = "open_output"
    /\ host' = args.host
    /\ IF args.output
       THEN /\ fs' = [fs EXCEPT !.output = "empty"]
            /\ sink' = [supplied |-> TRUE, data |-> <<>>]
       ELSE UNCHANGED <<fs, sink>>
    /\ pc' = "create"
    /\ UNCHANGED <<zip, zfile, opened, appname, info, err, ret, memo, args, httpd>>

\* production: data = manifest.create(args.host, filehandle=...)
MainCreate ==
    /\ pc = "create"
    /\ \E r \in {create(appname, info, host, args.output)} :
           /\ ret' = Outcome(r)
           /\ IF r.err = NoError
              THEN /\ sink' = [sink EXCEPT !.data = r.written]
                   /\ fs' = IF args.output THEN [fs EXCEPT !.output = "written"] ELSE fs
                   /\ pc' = "print"
                   /\ UNCHANGED <<err, zfile, httpd>>
              ELSE /\ Propagate(r.err)
                   /\ UNCHANGED <<sink, fs>>
    /\ UNCHANGED <<zip, opened, appname, info, host, memo, args>>

\* the end of the with block: print(...) and then __exit__
MainPrint ==
    /\ pc \in {"print", "no_host"}
    /\ zfile' = "closed"
    /\ pc' = "exit0"
    /\ UNCHANGED <<zip, opened, appname, info, err, host, ret, sink, memo,
                   args, fs, httpd>>

\* demo: localhost = _get_ip(), the outbound address or 127.0.0.1, and
\* host = f"https://{localhost}:{args.port}/{manifest._path.name}"
GetIp ==
    /\ pc = "get_ip"
    /\ \E localhost \in {"10.0.0.2", "127.0.0.1"} :
           host' = <<"https://", localhost, ":", "8000", "/", "app.ipa">>
    /\ pc' = "open_manifest"
    /\ UNCHANGED <<zip, zfile, opened, appname, info, err, ret, sink, memo,
                   args, fs, httpd>>

\* demo: with manifest_path.open("wb") as f
OpenManifest ==
    /\ pc = "open_manifest"
    /\ fs' = [fs EXCEPT !.manifest = "empty"]
    /\ sink' = [supplied |-> TRUE, data |-> <<>>]
    /\ pc' = "demo_create"
    /\ UNCHANGED <<zip, zfile, opened, appname, info, err, host, ret, memo,
                   args, httpd>>

\* demo: manifest.create(host, f), and f is closed
DemoCreate ==
    /\ pc = "demo_create"
    /\ \E r \in {create(appname, info, host, TRUE)} :
           /\ ret' = Outcome(r)
           /\ IF r.err = NoError
              THEN /\ sink' = [sink EXCEPT !.data = r.written]
                   /\ fs' = [fs EXCEPT !.manifest = "written"]
                   /\ pc' = "bind"
                   /\ UNCHANGED <<err, zfile, httpd>>
              ELSE /\ Propagate(r.err)
                   /\ UNCHANGED <<sink, fs>>
    /\ UNCHANGED <<zip, opened, appname, info, host, memo, args>>

\* demo: with TCPServer(("", args.port), handler) as httpd; the port may be taken
Bind ==
    /\ pc = "bind"
    /\ \/ /\ httpd' = "bound"
          /\ pc' = "demo_print"
          /\ UNCHANGED <<err, zfile>>
       \/ Propagate(Raised("OSError", <<>>))
    /\ UNCHANGED <<zip, opened, appname, info, host, ret, sink, memo, args, fs>>

\* demo: the two print calls
DemoPrint ==
    /\ pc = "demo_print"
    /\ pc' = "serve_forever"
    /\ UNCHANGED <<zip, zfile, opened, appname, info, err, host, ret, sink,
                   memo, args, fs, httpd>>

\* demo: KeyboardInterrupt inside the try: print("exiting"),
\* manifest_path.unlink(), sys.exit(0); SystemExit then leaves both with blocks
ServeInterrupted ==
    /\ pc = "serve_forever"
    /\ fs' = [fs EXCEPT !.manifest = "absent"]
    /\ httpd' = "closed"
    /\ zfile' = "closed"
    /\ pc' = "exit0"
    /\ UNCHANGED <<zip, opened, appname, info, err, host, ret, sink, memo, args>>

\* KeyboardInterrupt at a statement of the with block outside the try
Interrupt ==
    /\ pc \in InMain \ {"serve_forever"}
    /\ Propagate(Raised("KeyboardInterrupt", <<>>))
    /\ UNCHANGED <<zip, opened, appname, info, host, ret, sink, memo, args, fs>>

NextMain ==
    \/ MainConstruct
    \/ MainBranch
    \/ OpenOutput
    \/ MainCreate
    \/ MainPrint
    \/ GetIp
    \/ OpenManifest
    \/ DemoCreate
    \/ Bind
    \/ DemoPrint
    \/ ServeInterrupted
    \/ Interrupt

SpecMain == InitMain /\ [][NextMain]_vars

-----------------------------------------------------------------------------
(* The properties.                                                         *)

\* the first path component of an entry name after Payload/
FirstComponent(path) ==
    LET rest == SubSeq(path, Len(PayloadSlash) + 1, Len(path))
        cut  == {i \in 1..Len(rest) : rest[i] = "/"}
    IN  IF cut = {} THEN rest ELSE SubSeq(rest, 1, SetMin(cut) - 1)

\* an entry Payload/<Name>.app or Payload/<Name>.app/<rest>
IsAppEntry(path) ==
    /\ IsPrefix(PayloadSlash, path)
    /\ IsSuffix(DotApp, FirstComponent(path))
    /\ Len(FirstComponent(path)) > Len(DotApp)

\* its <Name>
AppEntryName(path) ==
    SubSeq(FirstComponent(path), 1, Len(FirstComponent(path)) - Len(DotApp))

AppEntries(z) == {i \in 1..Len(z) : IsAppEntry(z[i].name)}

Constructing == pc # "new"

\* C1: for an archive with at least one entry Payload/<Name>.app[/<rest>],
\* constructing the Manifest sets appname to the <Name> of the first such
\* entry in the archive's order.
C1_FirstAppEntryNamesManifest ==
    (Constructing /\ AppEntries(zip) # {})
        => appname = AppEntryName(zip[SetMin(AppEntries(zip))].name)

\* C2: for an archive with no entry Payload/<component ending in .app>[/<rest>],
\* constructing the Manifest fails with the RuntimeError "Could not detect app
\* name" and never looks up an Info.plist entry.
C2_NoAppEntryRaisesRuntimeError ==
    (Constructing /\ AppEntries(zip) = {})
        => (pc = "raised" /\ err.kind = "RuntimeError" /\ opened = <<>>)

\* an application directory is detected and its Info.plist is absent
InfoPlistAbsent ==
    /\ _parse_app_name(zip) # <<>>
    /\ MemberIndex(zip, InfoPlistPath(_parse_app_name(zip))) = 0

\* an application directory is detected and its Info.plist is no property list
InfoPlistUnparsable ==
    /\ _parse_app_name(zip) # <<>>
    /\ MemberIndex(zip, InfoPlistPath(_parse_app_name(zip))) # 0
    /\ zip[MemberIndex(zip, InfoPlistPath(_parse_app_name(zip)))].data.kind # "plist"

\* the error kind the constructor raises for a detected application without
\* Info.plist: the kind a dedicated metadata error would have to be
AbsentInfoPlistKind ==
    Manifest__init__(<<[name |-> NameA \o <<"/">>, data |-> OtherFile]>>).err.kind

Called == pc \in Live /\ ret.state # "none"

HasBothKeys == RequiredKeys \subseteq DOMAIN info

\* the decoded bytes hold one item with one asset and the six fields, url = u
DecodesTo(bytes, u) ==
    LET doc      == plistlib_loads(bytes)
        items    == Get(doc, <<"items">>)
        item     == items.items[1]
        assets   == Get(item, <<"assets">>)
        asset    == assets.items[1]
        metadata == Get(item, <<"metadata">>)
    IN  /\ doc.t = "dict" /\ doc.keys = << <<"items">> >>
        /\ items.t = "array" /\ Len(items.items) = 1
        /\ assets.t = "array" /\ Len(assets.items) = 1
        /\ Get(asset, <<"url">>) = Str(u)
        /\ Get(asset, <<"kind">>) = Str(<<"software-package">>)
        /\ Get(metadata, <<"bundle-identifier">>) = Str(info["CFBundleIdentifier"])
        /\ Get(metadata, <<"bundle-version">>)
              = Str(info["CFBundleShortVersionString"])
        /\ Get(metadata, <<"kind">>) = Str(<<"software">>)
        /\ Get(metadata, <<"title">>) = Str(appname)

\* C4 as stated: with both keys in info, for every host, create returns bytes
\* that decode to the one-item document with url = host verbatim.
C4_RoundTripEveryHost ==
    (Called /\ HasBothKeys) => (ret.state = "bytes" /\ DecodesTo(ret.data, host))

\* text the XML writer neither refuses nor rewrites
Plain(text) == \A i \in 1..Len(text) : text[i] \notin {CR, CTRL}

\* C4 as amended: the round trip holds when the host and the two info values
\* hold no control character and no carriage return.
C4_RoundTripPlainText ==
    (Called /\ HasBothKeys /\ Plain(host)
        /\ Plain(info["CFBundleIdentifier"])
        /\ Plain(info["CFBundleShortVersionString"]))
        => (ret.state = "bytes" /\ DecodesTo(ret.data, host))

C4_Witness ==
    /\ Called /\ HasBothKeys /\ host = <<AMP>>
    /\ ret.state = "bytes" /\ DecodesTo(ret.data, <<AMP>>)

\* C5: when info lacks one of the two keys, create raises an error naming an
\* absent key, returns no bytes and writes nothing to the filehandle; whatever
\* is written to a filehandle is the complete serialized document.
C5_MissingKeyWritesNothing ==
    /\ (Called /\ ~HasBothKeys)
          => /\ ret.state = "raised" /\ ret.data = <<>>
             /\ err.kind = "KeyError"
             /\ \E k \in RequiredKeys \ DOMAIN info : err.key = <<k>>
             /\ sink.data = <<>>
    /\ (Called /\ sink.data # <<>>)
          => (ret.state = "bytes" /\ sink.data = ret.data)

C5_Witness ==
    /\ Called /\ sink.supplied /\ err.kind = "KeyError"
    /\ "CFBundleIdentifier" \in DOMAIN info
    /\ "CFBundleShortVersionString" \notin DOMAIN info

\* the keys between <key> and </key>, in the order they are emitted
RECURSIVE EmittedKeys(_, _)
EmittedKeys(toks, i) ==
    IF i > Len(toks) THEN <<>>
    ELSE IF toks[i] = "<key>"
         THEN <<SubSeq(toks, i + 1, TagAt(toks, i + 1, "</key>") - 1)>>
              \o EmittedKeys(toks, TagAt(toks, i + 1, "</key>") + 1)
    ELSE EmittedKeys(toks, i + 1)

InsertionOrder ==
    << <<"items">>, <<"assets">>, <<"kind">>, <<"url">>, <<"metadata">>,
       <<"bundle-identifier">>, <<"bundle-version">>, <<"kind">>, <<"title">> >>

\* C9 as stated: the bytes create returns are a binary property list (they
\* start with bplist00) with the keys in insertion order.
C9_BinaryPlist ==
    (Called /\ ret.state = "bytes")
        => (Head(ret.data) = "bplist00"
            /\ EmittedKeys(ret.data, 1) = InsertionOrder)

\* C9 as amended: the bytes create returns are an XML property list (they start
\* with the XML declaration) with the keys in insertion order.
C9_XmlPlistInsertionOrder ==
    (Called /\ ret.state = "bytes")
        => (SubSeq(ret.data, 1, Len(PLISTHEADER)) = PLISTHEADER
            /\ EmittedKeys(ret.data, 1) = InsertionOrder)

C9_Witness == Called /\ ret.state = "bytes" /\ host = <<"h">> /\ sink.supplied

C6_HandleClosedAtExit == pc \in Terminal => zfile # "open"

\* C7: when create fails on a missing metadata field, the output file and
\* manifest.plist have been neither created nor truncated.
C7_NoOutputFileOnMissingField ==
    (pc \in Terminal /\ err.kind = "KeyError" /\ err.key \in {<<k>> : k \in RequiredKeys})
        => (fs.output # "empty" /\ fs.manifest # "empty")

\* C8: no demo run ends with the manifest.plist it wrote still on disk.
C8_DemoManifestDeleted == pc \in Terminal => fs.manifest # "written"

====
